---- MODULE Spec2Model ----
(***************************************************************************)
(* Patient Management System API (Backend/main.py).                        *)
(*                                                                         *)
(* The store is the file patients.json: one JSON object, patient id ->     *)
(* patient record, in insertion order.  The file is modelled as the        *)
(* sequence of tokens json.dump writes: an opening brace, one token per    *)
(* entry, a closing brace.  json.load succeeds only on a well-formed       *)
(* token sequence.                                                         *)
(*                                                                         *)
(* Units.  height is kept in centimetres and weight in kilograms, both as  *)
(* integers; bmi is kept in hundredths (2222 stands for 22.22).  So        *)
(* bmi = round(weight / height^2, 2) becomes the integer nearest to        *)
(* weight * 10^6 / height_cm^2.                                            *)
(***************************************************************************)
EXTENDS Integers, Sequences, FiniteSets, TLC

VARIABLES
    file,     \* contents of patients.json (sequence of tokens)
    last,     \* the last request handled one at a time: its input, result, response and the file before it
    seed,     \* how patients.json looked when the server started
    deleted,  \* ids removed by a successful delete and not created again since
    workers,  \* concurrent request handlers (threadpool), each at a step of its handler
    received, \* number of requests the concurrent handlers have taken
    saves     \* when each concurrent handler loaded, opened and closed the file, and what it wrote

vars == <<file, last, seed, deleted, workers, received, saves>>

(***************************************************************************)
(* Bounds of the model.                                                    *)
(***************************************************************************)
NumIds == 2
NumWorkers == 2
MaxRequests == 3

AllIds == <<"P1", "P2", "P3", "P4">>
Ids == {AllIds[i] : i \in 1..NumIds}
Workers == 1..NumWorkers

(***************************************************************************)
(* Patient schema.                                                         *)
(***************************************************************************)
AgeMax == 120
Genders == {"male", "female", "other"}
InputFields == {"id", "name", "city", "age", "gender", "height", "weight"}
UpdateFields == {"name", "city", "age", "gender", "height", "weight"}

\* round(x, 2) of the quotient num/den, as hundredths: nearest integer, an exact tie to even
Round2(num, den) ==
    LET q == num \div den
        r == num % den
    IN  IF 2 * r < den THEN q
        ELSE IF 2 * r > den THEN q + 1
        ELSE IF q % 2 = 0 THEN q ELSE q + 1

\* the quotient cut after two decimals instead of rounded
bmi_truncated(height, weight) == (weight * 1000000) \div (height * height)

bmi(height, weight) == Round2(weight * 1000000, height * height)

verdict(b) ==
    IF b < 1850 THEN "Underweight"
    ELSE IF 1850 <= b /\ b < 2500 THEN "Normal weight"
    ELSE IF 2500 <= b /\ b < 3000 THEN "Overweight"
    ELSE "Obese"

\* the upper limit of age left out
Patient_without_age_limit(p) ==
    /\ InputFields \subseteq DOMAIN p
    /\ p.age > 0
    /\ p.gender \in Genders
    /\ p.height > 0
    /\ p.weight > 0

\* Field constraints of class Patient, on a mapping that holds all seven input fields
Patient(p) ==
    /\ InputFields \subseteq DOMAIN p
    /\ p.age > 0 /\ p.age < AgeMax
    /\ p.gender \in Genders
    /\ p.height > 0
    /\ p.weight > 0

\* Field constraints of class Patient_update, on the fields the payload sets
Patient_update(u) ==
    /\ DOMAIN u \subseteq UpdateFields
    /\ "age" \in DOMAIN u => u.age > 0
    /\ "gender" \in DOMAIN u => u.gender \in Genders
    /\ "height" \in DOMAIN u => u.height > 0
    /\ "weight" \in DOMAIN u => u.weight > 0

\* Patient.model_dump(): the seven input fields and the two computed fields
model_dump(p) ==
    [id |-> p.id, name |-> p.name, city |-> p.city, age |-> p.age,
     gender |-> p.gender, height |-> p.height, weight |-> p.weight,
     bmi |-> bmi(p.height, p.weight),
     verdict |-> verdict(bmi(p.height, p.weight))]

(***************************************************************************)
(* Persistence: json.dump / json.load on patients.json.                    *)
(***************************************************************************)
OpenBrace == [t |-> "{"]
CloseBrace == [t |-> "}"]
EntryToken(e) == [t |-> "entry", key |-> e.key, val |-> e.val]

\* the tokens json.dump(data) writes
json_dump(data) ==
    <<OpenBrace>> \o [i \in 1..Len(data) |-> EntryToken(data[i])] \o <<CloseBrace>>

\* json.load accepts the file (otherwise it raises JSONDecodeError)
Parses(f) ==
    /\ Len(f) >= 2
    /\ f[1] = OpenBrace
    /\ f[Len(f)] = CloseBrace
    /\ \A i \in 2..(Len(f) - 1) : f[i].t = "entry"

\* load_data(): the mapping as a sequence of [key, val] in file order
load_data(f) == [i \in 1..(Len(f) - 2) |-> [key |-> f[i + 1].key, val |-> f[i + 1].val]]

\* save_data(data): the whole file rewritten
save_data(data) == json_dump(data)

Keys(data) == {data[i].key : i \in 1..Len(data)}
IndexOf(data, k) == CHOOSE i \in 1..Len(data) : data[i].key = k
Lookup(data, k) == data[IndexOf(data, k)].val
values(data) == [i \in 1..Len(data) |-> data[i].val]

(***************************************************************************)
(* Request handlers.  Each takes the file as it is when the request        *)
(* arrives and yields the result, the response body and the file           *)
(* afterwards.  Results name the failure raised: RequestValidationError    *)
(* (the body does not fit the handler's schema, raised before the handler  *)
(* runs), NotFound (404), Conflict (400), BadRequest (400), and, uncaught  *)
(* inside a handler, JSONDecodeError, TypeError and ValidationError.       *)
(***************************************************************************)
NoBody == <<>>
Reply(result, resp, f) == [result |-> result, resp |-> resp, file |-> f]

view(f) ==
    IF ~Parses(f) THEN Reply("JSONDecodeError", NoBody, f)
    ELSE Reply("OK", load_data(f), f)

\* an absent id answered with an empty 200 instead of 404
view_patient_absent_ok(f, patient_id) ==
    IF ~Parses(f) THEN Reply("JSONDecodeError", NoBody, f)
    ELSE LET data == load_data(f)
         IN  IF patient_id \in Keys(data)
             THEN Reply("OK", Lookup(data, patient_id), f)
             ELSE Reply("OK", NoBody, f)

view_patient(f, patient_id) ==
    IF ~Parses(f) THEN Reply("JSONDecodeError", NoBody, f)
    ELSE LET data == load_data(f)
         IN  IF patient_id \in Keys(data)
             THEN Reply("OK", Lookup(data, patient_id), f)
             ELSE Reply("NotFound", NoBody, f)

\* x.get(sort_by, 0)
SortKey(x, sort_by) == IF sort_by \in DOMAIN x THEN x[sort_by] ELSE 0

\* the reverse flag ignored
Before_ascending_only(x, y, sort_by, reverse) ==
    SortKey(x, sort_by) < SortKey(y, sort_by)

\* equal keys count as out of order, so the sort is not stable
Before_or_equal(x, y, sort_by, reverse) ==
    IF reverse THEN SortKey(x, sort_by) >= SortKey(y, sort_by)
    ELSE SortKey(x, sort_by) <= SortKey(y, sort_by)

\* x is placed before y when sorting (reverse flips every comparison)
Before(x, y, sort_by, reverse) ==
    IF reverse THEN SortKey(x, sort_by) > SortKey(y, sort_by)
    ELSE SortKey(x, sort_by) < SortKey(y, sort_by)

\* x inserted into the sorted sequence s behind every element it is not placed before
InsertSorted(s, x, sort_by, reverse) ==
    LET ahead == {i \in 1..Len(s) : Before(x, s[i], sort_by, reverse)}
        pos == IF ahead = {} THEN Len(s) + 1
               ELSE CHOOSE i \in ahead : \A j \in ahead : i <= j
    IN  SubSeq(s, 1, pos - 1) \o <<x>> \o SubSeq(s, pos, Len(s))

\* sorted(xs, key=lambda x: x.get(sort_by, 0), reverse=reverse): a stable sort
RECURSIVE sorted(_, _, _)
sorted(xs, sort_by, reverse) ==
    IF xs = <<>> THEN <<>>
    ELSE InsertSorted(sorted(SubSeq(xs, 1, Len(xs) - 1), sort_by, reverse),
                      xs[Len(xs)], sort_by, reverse)

valid_fields == {"height", "weight", "bmi"}
valid_orders == {"asc", "desc"}

\* the store loaded before the parameters are checked
sort_patients_load_first(f, sort_by, order) ==
    IF ~Parses(f) THEN Reply("JSONDecodeError", NoBody, f)
    ELSE IF sort_by \notin valid_fields THEN Reply("BadRequest", "Invalid sort field", f)
    ELSE IF order \notin valid_orders THEN Reply("BadRequest", "Invalid order", f)
    ELSE Reply("OK", sorted(values(load_data(f)), sort_by, order = "desc"), f)

sort_patients(f, sort_by, order) ==
    IF sort_by \notin valid_fields THEN Reply("BadRequest", "Invalid sort field", f)
    ELSE IF order \notin valid_orders THEN Reply("BadRequest", "Invalid order", f)
    ELSE IF ~Parses(f) THEN Reply("JSONDecodeError", NoBody, f)
    ELSE Reply("OK", sorted(values(load_data(f)), sort_by, order = "desc"), f)

\* no check for an existing id: the entry is replaced
create_body_overwrite(data, patient) ==
    [result |-> "Created", resp |-> patient.id,
     data |-> IF patient.id \in Keys(data)
              THEN [data EXCEPT ![IndexOf(data, patient.id)].val = model_dump(patient)]
              ELSE Append(data, [key |-> patient.id, val |-> model_dump(patient)]),
     save |-> TRUE]

\* create_patient once the store is loaded: [result, resp, data, save]
create_body(data, patient) ==
    IF patient.id \in Keys(data)
    THEN [result |-> "Conflict", resp |-> NoBody, data |-> data, save |-> FALSE]
    ELSE [result |-> "Created", resp |-> patient.id,
          data |-> Append(data, [key |-> patient.id, val |-> model_dump(patient)]),
          save |-> TRUE]

create_patient(f, patient) ==
    IF ~Patient(patient) THEN Reply("RequestValidationError", NoBody, f)
    ELSE IF ~Parses(f) THEN Reply("JSONDecodeError", NoBody, f)
    ELSE LET r == create_body(load_data(f), patient)
         IN  Reply(r.result, r.resp, IF r.save THEN save_data(r.data) ELSE f)

\* existing_patient[key] = value for every field the payload sets
Merge(existing_patient, updated_data) ==
    [k \in DOMAIN existing_patient \cup DOMAIN updated_data |->
        IF k \in DOMAIN updated_data THEN updated_data[k] ELSE existing_patient[k]]

\* the keyword arguments of Patient(id=patient_id, **existing_patient)
WithId(existing_patient, patient_id) ==
    [k \in DOMAIN existing_patient \cup {"id"} |->
        IF k = "id" THEN patient_id ELSE existing_patient[k]]

\* update_patient once the store is loaded: [result, resp, data, save]
update_body(data, patient_id, patient_update) ==
    IF patient_id \notin Keys(data)
    THEN [result |-> "NotFound", resp |-> NoBody, data |-> data, save |-> FALSE]
    ELSE LET existing_patient == Merge(Lookup(data, patient_id), patient_update)
         IN  IF "id" \in DOMAIN existing_patient
             THEN \* id is passed twice: by keyword and inside **existing_patient
                  [result |-> "TypeError", resp |-> NoBody, data |-> data, save |-> FALSE]
             ELSE IF ~Patient(WithId(existing_patient, patient_id))
             THEN [result |-> "ValidationError", resp |-> NoBody, data |-> data, save |-> FALSE]
             ELSE [result |-> "OK", resp |-> NoBody,
                   data |-> [data EXCEPT ![IndexOf(data, patient_id)].val =
                                model_dump(WithId(existing_patient, patient_id))],
                   save |-> TRUE]

update_patient(f, patient_id, patient_update) ==
    IF ~Patient_update(patient_update) THEN Reply("RequestValidationError", NoBody, f)
    ELSE IF ~Parses(f) THEN Reply("JSONDecodeError", NoBody, f)
    ELSE LET r == update_body(load_data(f), patient_id, patient_update)
         IN  Reply(r.result, r.resp, IF r.save THEN save_data(r.data) ELSE f)

\* del data[patient_id]
Del(data, patient_id) ==
    LET i == IndexOf(data, patient_id)
    IN  SubSeq(data, 1, i - 1) \o SubSeq(data, i + 1, Len(data))

\* the entry removed in memory but the store never saved
delete_body_unsaved(data, patient_id) ==
    IF patient_id \notin Keys(data)
    THEN [result |-> "NotFound", resp |-> NoBody, data |-> data, save |-> FALSE]
    ELSE [result |-> "OK", resp |-> NoBody, data |-> data, save |-> FALSE]

\* delete_patient once the store is loaded: [result, resp, data, save]
delete_body(data, patient_id) ==
    IF patient_id \notin Keys(data)
    THEN [result |-> "NotFound", resp |-> NoBody, data |-> data, save |-> FALSE]
    ELSE [result |-> "OK", resp |-> NoBody, data |-> Del(data, patient_id), save |-> TRUE]

delete_patient(f, patient_id) ==
    IF ~Parses(f) THEN Reply("JSONDecodeError", NoBody, f)
    ELSE LET r == delete_body(load_data(f), patient_id)
         IN  Reply(r.result, r.resp, IF r.save THEN save_data(r.data) ELSE f)

(***************************************************************************)
(* Requests the clients send.                                              *)
(***************************************************************************)
MkPatient(id, name, city, age, gender, height, weight) ==
    [id |-> id, name |-> name, city |-> city, age |-> age, gender |-> gender,
     height |-> height, weight |-> weight]

\* POST /create bodies: four that fit the schema (bmi 22.22, 25.00, 17.96, 30.00,
\* one of each verdict) and five that do not
PatientInputs ==
    UNION {{MkPatient(id, "Ann", "Pune", 30, "female", 180, 72),
            MkPatient(id, "Bob", "Goa", 119, "male", 200, 100),
            MkPatient(id, "Cyd", "Agra", 1, "other", 175, 55),
            MkPatient(id, "Gus", "Agra", 50, "male", 200, 120),
            MkPatient(id, "Ann", "Pune", 0, "female", 180, 72),
            MkPatient(id, "Ann", "Pune", 120, "female", 180, 72),
            MkPatient(id, "Ann", "Pune", 30, "unknown", 180, 72),
            MkPatient(id, "Ann", "Pune", 30, "female", 0, 72),
            MkPatient(id, "Ann", "Pune", 30, "female", 180, 0)} : id \in Ids}

\* PUT /edit bodies (exclude_unset: only the fields the client set)
PartialInputs ==
    {<<>>,
     [height |-> 200, weight |-> 74],
     [weight |-> 50],
     [name |-> "Zed", city |-> "Goa"],
     [age |-> 119, gender |-> "male"],
     [age |-> 120],
     [age |-> 0],
     [gender |-> "unknown"],
     [height |-> 0],
     [weight |-> 0, name |-> "Zed"]}

SortByInputs == {"height", "weight", "bmi", "age"}
OrderInputs == {"asc", "desc", "up"}

\* a record written to patients.json by hand, keyed by its id and holding no id field
LegacyRecord ==
    [name |-> "Eve", city |-> "Agra", age |-> 45, gender |-> "female",
     height |-> 170, weight |-> 65, bmi |-> 2249, verdict |-> "Normal weight"]

\* patients.json when the server starts: an empty object, one hand-written
\* record, or an empty file (json.load raises on it)
SeedFile(s) ==
    IF s = "empty" THEN json_dump(<<>>)
    ELSE IF s = "legacy" THEN json_dump(<<[key |-> "P1", val |-> LegacyRecord]>>)
    ELSE <<>>

Worker(pc, req, result, resp, out, pos) ==
    [pc |-> pc, req |-> req, result |-> result, resp |-> resp, out |-> out, pos |-> pos]

Idle == Worker("idle", [op |-> "none", id |-> "", arg |-> NoBody], "", NoBody, <<>>, 0)

\* a handler that has not loaded yet; count numbers the opens and closes of the file
NoCycle == [loaded |-> 0, opened |-> 0, closed |-> 0, doc |-> <<>>]

Init ==
    /\ seed \in {"empty", "legacy", "corrupt"}
    /\ file = SeedFile(seed)
    /\ last = [op |-> "none", id |-> "", arg |-> NoBody, result |-> "", resp |-> NoBody,
               pre |-> SeedFile(seed)]
    /\ deleted = {}
    /\ workers = [w \in Workers |-> Idle]
    /\ received = 0
    /\ saves = [count |-> 0, of |-> [w \in Workers |-> NoCycle]]

(***************************************************************************)
(* Requests handled one at a time: each action is one whole handler.       *)
(***************************************************************************)
Handled(op, id, arg, r) ==
    /\ file' = r.file
    /\ last' = [op |-> op, id |-> id, arg |-> arg, result |-> r.result, resp |-> r.resp,
                pre |-> file]
    /\ deleted' = IF op = "delete" /\ r.result = "OK" THEN deleted \cup {id}
                  ELSE IF op = "create" /\ r.result = "Created" THEN deleted \ {id}
                  ELSE deleted
    /\ UNCHANGED <<seed, workers, received, saves>>

View == Handled("view", "", NoBody, view(file))

ViewPatient == \E id \in Ids : Handled("get", id, NoBody, view_patient(file, id))

SortPatients ==
    \E sort_by \in SortByInputs, order \in OrderInputs :
        Handled("sort", "", [sort_by |-> sort_by, order |-> order],
                sort_patients(file, sort_by, order))

CreatePatient ==
    \E patient \in PatientInputs :
        Handled("create", patient.id, patient, create_patient(file, patient))

UpdatePatient ==
    \E id \in Ids, patient_update \in PartialInputs :
        Handled("update", id, patient_update, update_patient(file, id, patient_update))

DeletePatient == \E id \in Ids : Handled("delete", id, NoBody, delete_patient(file, id))

Next ==
    \/ View
    \/ ViewPatient
    \/ SortPatients
    \/ CreatePatient
    \/ UpdatePatient
    \/ DeletePatient

Spec == Init /\ [][Next]_vars

(***************************************************************************)
(* Properties of requests handled one at a time.  last.pre is the file     *)
(* the request found, file is the file it left.                            *)
(***************************************************************************)
PreReadable == Parses(last.pre)
PreData == load_data(last.pre)
PostData == load_data(file)
PreHas(id) == PreReadable /\ id \in Keys(PreData)
PreLacks(id) == PreReadable /\ id \notin Keys(PreData)
Reverse(s) == [i \in 1..Len(s) |-> s[Len(s) + 1 - i]]

\* C1: create(p), p fitting the Patient schema, with an id that is already a key
\* of the stored collection fails with Conflict and leaves the stored collection
\* as it was (the record under that id is not overwritten).
C1_DuplicateCreateConflicts ==
    (last.op = "create" /\ Patient(last.arg) /\ PreHas(last.id))
        => (last.result = "Conflict" /\ file = last.pre)

C1_Witness ==
    /\ last.op = "create" /\ Patient(last.arg) /\ PreHas(last.id)
    /\ last.result = "Conflict"
    /\ "id" \in DOMAIN Lookup(PostData, last.id)
    /\ Lookup(PostData, last.id).name # last.arg.name

\* the bmi of record rec is the hundredth nearest to weight / height^2
BmiIsRounded(rec) ==
    LET d == rec.bmi * rec.height * rec.height - rec.weight * 1000000
    IN  2 * d <= rec.height * rec.height /\ -2 * d <= rec.height * rec.height

\* the verdict of record rec is the one the threshold table gives its bmi
VerdictFromTable(rec) ==
    /\ rec.bmi < 1850 => rec.verdict = "Underweight"
    /\ (rec.bmi >= 1850 /\ rec.bmi < 2500) => rec.verdict = "Normal weight"
    /\ (rec.bmi >= 2500 /\ rec.bmi < 3000) => rec.verdict = "Overweight"
    /\ rec.bmi >= 3000 => rec.verdict = "Obese"

\* C2: for a valid Patient p whose id is not in the store, create(p) returns 201
\* with p.id, and a following get_by_id(p.id) returns p's seven input fields
\* unchanged plus bmi = round(weight / height^2, 2) and the verdict of that bmi.
C2_CreateThenGet ==
    (last.op = "create" /\ Patient(last.arg) /\ PreLacks(last.id))
        => /\ last.result = "Created"
           /\ last.resp = last.id
           /\ LET got == view_patient(file, last.id)
              IN  /\ got.result = "OK"
                  /\ DOMAIN got.resp = InputFields \cup {"bmi", "verdict"}
                  /\ \A k \in InputFields : got.resp[k] = last.arg[k]
                  /\ BmiIsRounded(got.resp)
                  /\ VerdictFromTable(got.resp)

C2_Witness ==
    /\ last.op = "create" /\ last.result = "Created"
    /\ Lookup(PostData, last.id).bmi = 1796
    /\ Lookup(PostData, last.id).verdict = "Underweight"

\* the input fields a partial payload is merged onto, and the merge
InputsOf(rec, id) == [k \in InputFields |-> IF k = "id" THEN id ELSE rec[k]]
MergedInputs(rec, id, partial) ==
    [k \in InputFields |-> IF k \in DOMAIN partial THEN partial[k] ELSE InputsOf(rec, id)[k]]

\* C3: for a patient stored by a successful create and a partial payload whose
\* merge is a valid Patient, update(id, partial) returns the success message and
\* the stored record afterwards has the supplied value for each provided field,
\* the prior value for every other field (id included) and bmi/verdict recomputed;
\* with the empty payload all fields are unchanged.
C3_UpdateMergesProvidedFields ==
    (/\ last.op = "update" /\ seed = "empty" /\ PreHas(last.id)
     /\ DOMAIN last.arg \subseteq UpdateFields
     /\ Patient(MergedInputs(Lookup(PreData, last.id), last.id, last.arg)))
        => /\ last.result = "OK"
           /\ Keys(PostData) = Keys(PreData)
           /\ LET before == Lookup(PreData, last.id)
                  after == Lookup(PostData, last.id)
              IN  /\ \A k \in InputFields :
                        after[k] = IF k \in DOMAIN last.arg THEN last.arg[k] ELSE before[k]
                  /\ BmiIsRounded(after)
                  /\ VerdictFromTable(after)
                  /\ DOMAIN last.arg = {} => after = before

\* C4: update(id, partial) on an existing id whose merged record violates a
\* Patient constraint is rejected with a validation failure and leaves the
\* stored collection as it was.
C4_InvalidMergeRejected ==
    (/\ last.op = "update" /\ PreHas(last.id)
     /\ DOMAIN last.arg \subseteq UpdateFields
     /\ ~Patient(MergedInputs(Lookup(PreData, last.id), last.id, last.arg)))
        => /\ last.result \in {"RequestValidationError", "ValidationError"}
           /\ file = last.pre

\* C5: after delete(id) succeeded, every get_by_id(id) fails NotFound until a
\* later create with that id succeeds; the delete removes exactly that one
\* entry and every other id keeps its record.
C5_DeleteThenNotFound ==
    /\ (last.op = "get" /\ last.id \in deleted) => last.result = "NotFound"
    /\ (last.op = "delete" /\ last.result = "OK")
          => /\ PreHas(last.id)
             /\ Keys(PostData) = Keys(PreData) \ {last.id}
             /\ \A k \in Keys(PostData) : Lookup(PostData, k) = Lookup(PreData, k)
             /\ last.id \in deleted

C5_Witness ==
    /\ last.op = "get" /\ last.id \in deleted /\ last.result = "NotFound"
    /\ Len(PostData) >= 1

SortRequested(order) ==
    /\ last.op = "sort" /\ PreReadable
    /\ last.arg.sort_by \in {"height", "weight", "bmi"}
    /\ last.arg.order = order

\* how often record x occurs in the sequence s
Occurrences(s, x) == Cardinality({i \in 1..Len(s) : s[i] = x})

\* C6: for sort_by in {height, weight, bmi} and order in {asc, desc}, sort returns
\* a permutation of all stored patients that is non-decreasing in the requested
\* field for asc and non-increasing for desc.
C6_SortIsOrderedPermutation ==
    \A order \in {"asc", "desc"} :
        SortRequested(order)
            => /\ last.result = "OK"
               /\ Len(last.resp) = Len(PreData)
               /\ \A i \in 1..Len(PreData) :
                     Occurrences(last.resp, PreData[i].val) =
                         Occurrences(values(PreData), PreData[i].val)
               /\ \A i, j \in 1..Len(last.resp) :
                     i < j => IF order = "asc"
                              THEN last.resp[i][last.arg.sort_by] <= last.resp[j][last.arg.sort_by]
                              ELSE last.resp[i][last.arg.sort_by] >= last.resp[j][last.arg.sort_by]

C6_Witness ==
    /\ SortRequested("desc") /\ last.arg.sort_by = "bmi"
    /\ Len(last.resp) >= 2
    /\ last.resp[1].bmi > last.resp[Len(last.resp)].bmi
    /\ PreData[1].val.bmi < PreData[Len(PreData)].val.bmi

\* where record x stands in the store's iteration order
PlaceInStore(x) == CHOOSE i \in 1..Len(PreData) : PreData[i].val = x

HasTie(s, sort_by) == \E i, j \in 1..Len(s) : i < j /\ s[i][sort_by] = s[j][sort_by]

\* C7 as stated: sort with order=desc returns exactly the reverse of sort with
\* order=asc on the same collection, also when several patients have equal
\* values of the field; in the asc result patients with equal values appear in
\* the store's mapping iteration order.
C7_DescIsReverseOfAsc ==
    /\ SortRequested("desc")
          => last.resp = Reverse(sort_patients(last.pre, last.arg.sort_by, "asc").resp)
    /\ SortRequested("asc")
          => \A i, j \in 1..Len(last.resp) :
                (i < j /\ last.resp[i][last.arg.sort_by] = last.resp[j][last.arg.sort_by])
                    => PlaceInStore(last.resp[i]) < PlaceInStore(last.resp[j])

\* C7 amended: sort with order=desc returns the reverse of sort with order=asc
\* whenever no two patients have equal values of the field; patients with equal
\* values appear in the store's mapping iteration order in the asc result and
\* in the desc result alike.
C7_DescReversesAscUpToTies ==
    /\ (SortRequested("desc") /\ ~HasTie(last.resp, last.arg.sort_by))
          => last.resp = Reverse(sort_patients(last.pre, last.arg.sort_by, "asc").resp)
    /\ \A order \in {"asc", "desc"} :
          SortRequested(order)
             => \A i, j \in 1..Len(last.resp) :
                   (i < j /\ last.resp[i][last.arg.sort_by] = last.resp[j][last.arg.sort_by])
                       => PlaceInStore(last.resp[i]) < PlaceInStore(last.resp[j])

C7_Witness ==
    /\ SortRequested("desc")
    /\ Len(last.resp) >= 2
    /\ HasTie(last.resp, last.arg.sort_by)
    /\ last.resp # Reverse(sort_patients(last.pre, last.arg.sort_by, "asc").resp)

\* C8 as stated: get_by_id, update and delete called with an id that is not a
\* key of the stored collection each fail with NotFound, for update whatever
\* the payload is, and leave the stored collection unchanged.
C8_AbsentIdNotFound ==
    (last.op \in {"get", "update", "delete"} /\ PreLacks(last.id))
        => (last.result = "NotFound" /\ file = last.pre)

\* C8 amended: get_by_id, update and delete called with an id that is not a key
\* of the stored collection each fail with NotFound, for update whatever payload
\* fitting the Patient_update schema is sent (a payload that does not fit it is
\* refused with a validation error before the id is looked up), and every such
\* request leaves the stored collection unchanged.
C8_AbsentIdNotFoundForSchemaPayloads ==
    (last.op \in {"get", "update", "delete"} /\ PreLacks(last.id))
        => /\ file = last.pre
           /\ IF last.op = "update" /\ ~Patient_update(last.arg)
              THEN last.result = "RequestValidationError"
              ELSE last.result = "NotFound"

C8_Witness ==
    /\ last.op = "update" /\ PreLacks(last.id)
    /\ DOMAIN last.arg = {"height", "weight"}
    /\ last.result = "NotFound"
    /\ Len(PostData) >= 1

\* C9: sort with sort_by outside {height, weight, bmi}, or with order outside
\* {asc, desc}, fails with BadRequest and returns no patient sequence; the
\* parameters are checked before the store is loaded, so the failure does not
\* depend on the store's contents or readability, and an invalid sort_by is
\* the one reported when order is invalid too.
C9_InvalidSortParamsBadRequest ==
    (/\ last.op = "sort"
     /\ \/ last.arg.sort_by \notin {"height", "weight", "bmi"}
        \/ last.arg.order \notin {"asc", "desc"})
        => /\ last.result = "BadRequest"
           /\ file = last.pre
           /\ last.resp = IF last.arg.sort_by \notin {"height", "weight", "bmi"}
                          THEN "Invalid sort field" ELSE "Invalid order"

C9_Witness ==
    /\ last.op = "sort" /\ ~PreReadable
    /\ last.arg.sort_by = "age" /\ last.arg.order = "up"
    /\ last.result = "BadRequest" /\ last.resp = "Invalid sort field"

(***************************************************************************)
(* Requests handled concurrently.  The handlers are plain def functions,   *)
(* which the server runs in a thread pool, and nothing locks               *)
(* patients.json: a handler's load and the steps of its save interleave    *)
(* with those of the other handlers.                                       *)
(*                                                                         *)
(* save_data opens the file with mode 'w', which empties it at once;       *)
(* json.dump then writes into the file object's buffer, which reaches the  *)
(* file each time the buffer is full and when the with block closes the    *)
(* file.  Every writer writes at its own offset.                           *)
(***************************************************************************)
\* tokens the file object's buffer holds
BufferSize == 2

Nul == [t |-> "nul"]

\* the file after toks are written at offset pos (a gap reads as zero bytes)
WriteAt(f, pos, toks) ==
    LET end == pos + Len(toks)
        n == IF Len(f) > end THEN Len(f) ELSE end
    IN  [i \in 1..n |-> IF i > pos /\ i <= end THEN toks[i - pos]
                         ELSE IF i <= Len(f) THEN f[i]
                         ELSE Nul]

ConcPatientInputs ==
    UNION {{MkPatient(id, "Ann", "Pune", 30, "female", 180, 72),
            MkPatient(id, "Ann", "Pune", 0, "female", 180, 72)} : id \in Ids}

ConcRequests ==
    {[op |-> "view", id |-> "", arg |-> NoBody]}
    \cup {[op |-> "get", id |-> id, arg |-> NoBody] : id \in Ids}
    \cup {[op |-> "sort", id |-> "", arg |-> [sort_by |-> sb, order |-> "desc"]] :
              sb \in {"bmi", "age"}}
    \cup {[op |-> "create", id |-> p.id, arg |-> p] : p \in ConcPatientInputs}
    \cup {[op |-> "update", id |-> id, arg |-> [weight |-> 50]] : id \in Ids}
    \cup {[op |-> "delete", id |-> id, arg |-> NoBody] : id \in Ids}

\* what is decided before the handler loads the store: "" when it goes on to load
BeforeLoad(req) ==
    IF req.op = "create" /\ ~Patient(req.arg) THEN "RequestValidationError"
    ELSE IF req.op = "update" /\ ~Patient_update(req.arg) THEN "RequestValidationError"
    ELSE IF req.op = "sort" /\ req.arg.sort_by \notin valid_fields THEN "BadRequest"
    ELSE IF req.op = "sort" /\ req.arg.order \notin valid_orders THEN "BadRequest"
    ELSE ""

\* the handler's work on the loaded store: [result, resp, data, save]
AfterLoad(req, data) ==
    IF req.op = "create" THEN create_body(data, req.arg)
    ELSE IF req.op = "update" THEN update_body(data, req.id, req.arg)
    ELSE IF req.op = "delete" THEN delete_body(data, req.id)
    ELSE [result |-> IF req.op = "get" /\ req.id \notin Keys(data) THEN "NotFound" ELSE "OK",
          resp |-> IF req.op = "view" THEN data
                   ELSE IF req.op = "sort"
                        THEN sorted(values(data), req.arg.sort_by, req.arg.order = "desc")
                   ELSE IF req.id \in Keys(data) THEN Lookup(data, req.id)
                   ELSE NoBody,
          data |-> data, save |-> FALSE]

\* a request arrives at a free worker; the framework checks it against the schema
Receive(w) ==
    /\ workers[w].pc \in {"idle", "done"}
    /\ received < MaxRequests
    /\ received' = received + 1
    /\ \E req \in ConcRequests :
          workers' = [workers EXCEPT ![w] =
              IF BeforeLoad(req) # ""
              THEN Worker("done", req, BeforeLoad(req), NoBody, <<>>, 0)
              ELSE Worker("load", req, "", NoBody, <<>>, 0)]
    /\ saves' = [saves EXCEPT !.of[w] = NoCycle]
    /\ UNCHANGED <<file, last, seed, deleted>>

\* data = load_data(), then the handler up to its save_data call or its return
Load(w) ==
    /\ workers[w].pc = "load"
    /\ workers' = [workers EXCEPT ![w] =
          IF ~Parses(file)
          THEN Worker("done", @.req, "JSONDecodeError", NoBody, <<>>, 0)
          ELSE LET r == AfterLoad(@.req, load_data(file))
               IN  IF r.save
                   THEN Worker("open", @.req, r.result, r.resp, json_dump(r.data), 0)
                   ELSE Worker("done", @.req, r.result, r.resp, <<>>, 0)]
    /\ saves' = [saves EXCEPT !.of[w].loaded = saves.count]
    /\ UNCHANGED <<file, last, seed, deleted, received>>

\* open('patients.json', 'w'): the file is emptied
SaveOpen(w) ==
    /\ workers[w].pc = "open"
    /\ file' = <<>>
    /\ workers' = [workers EXCEPT ![w].pc = "write"]
    /\ saves' = [saves EXCEPT !.count = @ + 1, !.of[w].opened = saves.count + 1,
                              !.of[w].doc = workers[w].out]
    /\ UNCHANGED <<last, seed, deleted, received>>

\* the buffer is full while json.dump writes: its contents reach the file
SaveFlush(w) ==
    /\ workers[w].pc = "write"
    /\ Len(workers[w].out) - workers[w].pos > BufferSize
    /\ file' = WriteAt(file, workers[w].pos,
                       SubSeq(workers[w].out, workers[w].pos + 1, workers[w].pos + BufferSize))
    /\ workers' = [workers EXCEPT ![w].pos = @ + BufferSize]
    /\ UNCHANGED <<last, seed, deleted, received, saves>>

\* the with block ends: the rest of the document reaches the file, the handler returns
SaveClose(w) ==
    /\ workers[w].pc = "write"
    /\ Len(workers[w].out) - workers[w].pos <= BufferSize
    /\ file' = WriteAt(file, workers[w].pos,
                       SubSeq(workers[w].out, workers[w].pos + 1, Len(workers[w].out)))
    /\ workers' = [workers EXCEPT ![w].pc = "done", ![w].out = <<>>, ![w].pos = 0]
    /\ saves' = [saves EXCEPT !.count = @ + 1, !.of[w].closed = saves.count + 1]
    /\ UNCHANGED <<last, seed, deleted, received>>

NextConc ==
    \E w \in Workers :
        \/ Receive(w)
        \/ Load(w)
        \/ SaveOpen(w)
        \/ SaveFlush(w)
        \/ SaveClose(w)

SpecConc == Init /\ [][NextConc]_vars

\* C10: a load that runs while another request saves never observes a partially
\* written or emptied store: on a store that was readable when the server
\* started, no request fails to parse the file.
C10_LoadNeverSeesPartialStore ==
    seed # "corrupt" => \A w \in Workers : workers[w].result # "JSONDecodeError"

\* handler w has saved: it loaded, opened the file and closed it, and has returned
Saved(w) == workers[w].pc = "done" /\ saves.of[w].closed > 0

\* the load-mutate-save cycles of w and v overlap: each loaded before the other
\* opened the file, and no other handler touched the file since the first open
CyclesOverlap(w, v) ==
    /\ w # v /\ Saved(w) /\ Saved(v)
    /\ saves.of[w].loaded < saves.of[v].opened
    /\ saves.of[v].loaded < saves.of[w].opened
    /\ \A u \in Workers \ {w, v} :
          /\ saves.of[u].opened > 0 => saves.of[u].closed > 0
          /\ saves.of[u].closed < saves.of[w].opened
          /\ saves.of[u].closed < saves.of[v].opened

\* w closed the file after v did
SavedLast(w, v) == saves.of[w].closed > saves.of[v].closed

\* C11: two mutating requests whose load-mutate-save cycles overlap (both load
\* before either saves) produce a lost update: both return success and the
\* final store is the one written by the last save alone, so that the other
\* request's change, made to a store the last saver never loaded, is absent.
C11_OverlapLosesUpdate ==
    \A w, v \in Workers :
        (CyclesOverlap(w, v) /\ SavedLast(w, v))
            => /\ workers[w].result \in {"Created", "OK"}
               /\ workers[v].result \in {"Created", "OK"}
               /\ file = saves.of[w].doc

\* C12: starting from an empty store, after any sequence of create, update and
\* delete requests handled one at a time, every entry of the stored collection
\* is a full valid Patient stored under its own id: the record's id equals its
\* key, 0 < age < 120, gender is male, female or other, height > 0, weight > 0,
\* and the stored bmi and verdict are the ones derived from the stored height
\* and weight.
C12_StoreHoldsValidPatients ==
    seed = "empty"
        => /\ Parses(file)
           /\ \A i, j \in 1..Len(PostData) : PostData[i].key = PostData[j].key => i = j
           /\ \A i \in 1..Len(PostData) :
                 LET rec == PostData[i].val
                 IN  /\ DOMAIN rec = {"id", "name", "city", "age", "gender", "height",
                                      "weight", "bmi", "verdict"}
                     /\ rec.id = PostData[i].key
                     /\ 0 < rec.age /\ rec.age < 120
                     /\ rec.gender \in {"male", "female", "other"}
                     /\ rec.height > 0 /\ rec.weight > 0
                     /\ BmiIsRounded(rec)
                     /\ VerdictFromTable(rec)

C12_Witness ==
    /\ seed = "empty"
    /\ last.op = "update" /\ PreHas(last.id)
    /\ deleted # {}
    /\ Len(PostData) >= 1
    /\ \E i \in 1..Len(PostData) : PostData[i].val.age = 119

====
